---------------------------- MODULE Spec2Model ----------------------------
(***************************************************************************)
(* Model of the bank payment service: the settlement saga of              *)
(* bank_web/payments.rs, the refund handler of bank_web/refunds.rs, the   *)
(* store statements of bank/payments.rs and bank/refunds.rs, the card     *)
(* validation of bank/payment_instruments.rs, the error classification    *)
(* of errors.rs and the AccountService capability of bank/accounts.rs.    *)
(*                                                                         *)
(* Every request is one sequential task.  A task is interleaved with the  *)
(* other tasks at its await points: each store statement and each call to *)
(* the account service is one step; the code between two await points is  *)
(* local and belongs to the step that follows it.  A store statement is   *)
(* executed as one indivisible step.                                       *)
(***************************************************************************)
EXTENDS Integers, Sequences, FiniteSets

\* ------------------------------------------------------------------ bounds
NumPay == 2          \* create-payment requests in flight (Spec)
NumRef == 2          \* create-refund requests in flight (SpecRefund)
MaxAmount == 2       \* largest amount a request carries

PReqs == 1..NumPay
Sagas == {1}         \* the create-payment request in flight beside the refunds (SpecRefund)
RReqs == 1..NumRef
Amounts == (-1)..MaxAmount
ValidAmounts == 1..MaxAmount

\* ------------------------------------------------------ payment_instruments
CARD_NUMBER_LENGTH == 15
ACCOUNT_PREFIX_LENGTH == 2

Digits == {"0", "1", "2", "3", "4", "5", "6", "7", "8", "9"}

Rep(c, n) == [i \in 1..n |-> c]

\* card numbers presented by the requests, as sequences of characters
CardA      == <<"1", "2">> \o Rep("3", 13)      \* 15 digits
CardPlus   == <<"+", "1">> \o Rep("3", 13)      \* sign, then 14 digits
CardMinus  == <<"-", "1">> \o Rep("3", 13)      \* sign, then 14 digits
CardAlpha  == <<"1", "2">> \o Rep("3", 12) \o <<"a">>
Card14     == <<"1", "2">> \o Rep("3", 12)
Card16     == <<"1", "2">> \o Rep("3", 14)
CardWide   == <<"1", "2">> \o Rep("3", 11) \o <<"é">>   \* 14 characters, 15 bytes
Cards == {CardA, CardPlus, CardMinus, CardAlpha, Card14, Card16, CardWide}

\* String::len counts bytes of the UTF-8 encoding
ByteLen(ch) == IF ch = "é" THEN 2 ELSE 1

RECURSIVE StrLen(_)
StrLen(s) == IF s = <<>> THEN 0 ELSE ByteLen(Head(s)) + StrLen(Tail(s))

\* str::parse::<u64>: an optional leading "+", then one or more decimal
\* digits; "-" is not accepted for an unsigned type.  A string of fewer
\* than 20 digits cannot overflow u64.
ParseU64Ok(s) ==
    LET body == IF s # <<>> /\ Head(s) = "+" THEN Tail(s) ELSE s
    IN  /\ body # <<>>
        /\ \A i \in 1..Len(body) : body[i] \in Digits
        /\ Len(body) < 20

CardTryFrom(card_number) ==
    IF StrLen(card_number) # CARD_NUMBER_LENGTH
    THEN "InvalidLength"
    ELSE IF ~ParseU64Ok(card_number) THEN "ParseError" ELSE "Ok"

account_number(card) == SubSeq(card, 1, ACCOUNT_PREFIX_LENGTH)

\* ------------------------------------------------------------------ errors
ServiceErrors == {"invalid_account_number", "invalid_amount",
                  "insufficient_funds", "service_unavailable", "timeout"}
Answers == {"ok"} \cup ServiceErrors
SagaAnswers == {"ok", "insufficient_funds", "service_unavailable"}

\* variant: the arm for insufficient_funds is missing
PaymentErrorFromNoFunds(messages) ==
    CASE messages = "invalid_account_number" -> 403
      [] messages = "invalid_amount"         -> 400
      [] OTHER                               -> 500

\* variant: an unknown message gets the code of PaymentError::default()
PaymentErrorFromDefault(messages) ==
    CASE messages = "invalid_account_number" -> 403
      [] messages = "invalid_amount"         -> 400
      [] messages = "insufficient_funds"     -> 402
      [] OTHER                               -> 403

PaymentErrorFrom(messages) ==
    CASE messages = "invalid_account_number" -> 403
      [] messages = "invalid_amount"         -> 400
      [] messages = "insufficient_funds"     -> 402
      [] OTHER                               -> 500

\* variant: an error that is not a decline leaves the payment to be retried
get_payment_statusRetry(code) ==
    IF code \in {402, 403} THEN "Declined" ELSE "Processing"

\* variant: only 402 is Declined
get_payment_statusOnly402(code) ==
    IF code = 402 THEN "Declined" ELSE "Failed"

get_payment_status(code) ==
    IF code \in {402, 403} THEN "Declined" ELSE "Failed"

\* StatusCode::from_u16 accepts 100..=999
get_http_status_code(code) == IF code \in 100..999 THEN code ELSE 404

\* ------------------------------------------------------------------- state
VARIABLES
    payments,               \* payments table: row id |-> row
    refunds,                \* refunds table:  row id |-> row
    pay,                    \* create-payment tasks
    ref,                    \* create-refund tasks
    holds,                  \* account service: hold id |-> state of the hold
    place_hold_count,       \* calls of place_hold
    release_hold_count,     \* calls of release_hold
    withdraw_funds_count,   \* calls of withdraw_funds
    calls                   \* per create-payment task: its account service calls

vars == <<payments, refunds, pay, ref, holds, place_hold_count,
          release_hold_count, withdraw_funds_count, calls>>

NoId == 0               \* no row / no hold
FreshUuid == 0 - 1      \* Uuid::new_v4(): the id of no stored row

IdlePay == [pc |-> "start", amount |-> 0, card_number |-> <<>>,
            payment_id |-> NoId, hold |-> NoId, err |-> "",
            code |-> 0, resp_id |-> NoId, resp_status |-> ""]

IdleRef == [pc |-> "start", payment_id |-> NoId, amount |-> 0,
            code |-> 0, error |-> "", resp_id |-> NoId]

Init ==
    /\ payments = <<>>
    /\ refunds = <<>>
    /\ pay = [r \in PReqs |-> IdlePay]
    /\ ref = [r \in RReqs |-> IdleRef]
    /\ holds = <<>>
    /\ place_hold_count = 0
    /\ release_hold_count = 0
    /\ withdraw_funds_count = 0
    /\ calls = [r \in PReqs |-> <<>>]

\* ------------------------------------------------------------ bank/payments
\* the uniqueness constraint on payments.card_number
CardNumberUsed(card_number) ==
    \E i \in DOMAIN payments : payments[i].card_number = card_number

payments_insert(amount, card_number, status) ==
    Append(payments, [amount |-> amount, card_number |-> card_number,
                      status |-> status])

\* variant: the UPDATE matches no row
payments_updateNoop(id, status) == payments

payments_update(id, status) == [payments EXCEPT ![id].status = status]

\* ------------------------------------------------- bank_web/payments::post
\* variant: the error of the reservation insert is not propagated
ReservationOutcomeIgnored(card_number) == "inserted"

\* variant: only a row that is still Processing reserves its card number
ReservationOutcomeWhileProcessing(card_number) ==
    IF \E i \in DOMAIN payments :
           /\ payments[i].card_number = card_number
           /\ payments[i].status = "Processing"
    THEN "conflict" ELSE "inserted"

\* variant: the reservation insert reports a conflict to every request
ReservationOutcomeAlwaysConflict(card_number) == "conflict"

\* the outcome of the reservation insert, as unwrap_or_return sees it
ReservationOutcome(card_number) ==
    IF CardNumberUsed(card_number) THEN "conflict" ELSE "inserted"

\* variant: a negative amount is not rejected
PreValidateNegativePasses(amount, card_number) ==
    IF amount = 0
    THEN [code |-> 204, error |-> "Amount shouldn't be 0"]
    ELSE IF CardTryFrom(card_number) # "Ok"
    THEN [code |-> 422, error |-> "Bad Card Number format"]
    ELSE [code |-> 0, error |-> ""]

\* the pre-validation: the rejection, or code 0 when the request passes
PreValidate(amount, card_number) ==
    IF amount = 0
    THEN [code |-> 204, error |-> "Amount shouldn't be 0"]
    ELSE IF amount < 0
    THEN [code |-> 400, error |-> "Amount shouldn't be negative"]
    ELSE IF CardTryFrom(card_number) # "Ok"
    THEN [code |-> 422, error |-> "Bad Card Number format"]
    ELSE [code |-> 0, error |-> ""]

\* requests are numbered in the order in which they arrive
Started(t, r) == IF r = 1 THEN TRUE ELSE t[r - 1].pc # "start"

PaymentPost(r, amounts, cards) ==
    /\ pay[r].pc = "start"
    /\ Started(pay, r)
    /\ \E amount \in amounts, card_number \in cards :
         LET rejected == PreValidate(amount, card_number)
             req == [pay[r] EXCEPT !.amount = amount,
                                   !.card_number = card_number]
         IN  IF rejected.code # 0
             THEN /\ pay' = [pay EXCEPT ![r] =
                               [req EXCEPT !.pc = "done", !.code = rejected.code,
                                           !.err = rejected.error]]
                  /\ UNCHANGED payments
             ELSE IF ReservationOutcome(card_number) = "conflict"
             THEN /\ pay' = [pay EXCEPT ![r] =
                               [req EXCEPT !.pc = "done", !.code = 422,
                                           !.err = "card_number already used"]]
                  /\ UNCHANGED payments
             ELSE /\ payments' = payments_insert(amount, card_number, "Processing")
                  /\ pay' = [pay EXCEPT ![r] =
                               [req EXCEPT !.pc = "place_hold",
                                           !.payment_id = Len(payments) + 1]]
    /\ UNCHANGED <<refunds, ref, holds, place_hold_count, release_hold_count,
                   withdraw_funds_count, calls>>

\* variant: a failed place_hold returns without reversing the row
PlaceHoldNoReverse(r, answers) ==
    /\ pay[r].pc = "place_hold"
    /\ place_hold_count' = place_hold_count + 1
    /\ \E res \in answers :
         /\ calls' = [calls EXCEPT ![r] =
                        Append(@, [op |-> "place_hold", res |-> res,
                                   args |-> <<account_number(pay[r].card_number),
                                              pay[r].amount>>,
                                   hold |-> IF res = "ok" THEN Len(holds) + 1
                                                          ELSE NoId])]
         /\ IF res = "ok"
            THEN /\ holds' = Append(holds, "live")
                 /\ pay' = [pay EXCEPT ![r].pc = "approve",
                                       ![r].hold = Len(holds) + 1]
            ELSE /\ pay' = [pay EXCEPT ![r].pc = "done", ![r].err = res,
                                       ![r].code = get_http_status_code(PaymentErrorFrom(res)),
                                       ![r].resp_id = FreshUuid,
                                       ![r].resp_status = get_payment_status(PaymentErrorFrom(res))]
                 /\ UNCHANGED holds
    /\ UNCHANGED <<payments, refunds, ref, release_hold_count, withdraw_funds_count>>

\* variant: after a successful place_hold the saga calls withdraw_funds at once
PlaceHoldThenWithdraw(r, answers) ==
    /\ pay[r].pc = "place_hold"
    /\ place_hold_count' = place_hold_count + 1
    /\ \E res \in answers :
         /\ calls' = [calls EXCEPT ![r] =
                        Append(@, [op |-> "place_hold", res |-> res,
                                   args |-> <<account_number(pay[r].card_number),
                                              pay[r].amount>>,
                                   hold |-> IF res = "ok" THEN Len(holds) + 1
                                                          ELSE NoId])]
         /\ IF res = "ok"
            THEN /\ holds' = Append(holds, "live")
                 /\ pay' = [pay EXCEPT ![r].pc = "withdraw",
                                       ![r].hold = Len(holds) + 1]
            ELSE /\ pay' = [pay EXCEPT ![r].pc = "reverse", ![r].err = res]
                 /\ UNCHANGED holds
    /\ UNCHANGED <<payments, refunds, ref, release_hold_count, withdraw_funds_count>>

PlaceHold(r, answers) ==
    /\ pay[r].pc = "place_hold"
    /\ place_hold_count' = place_hold_count + 1
    /\ \E res \in answers :
         /\ calls' = [calls EXCEPT ![r] =
                        Append(@, [op |-> "place_hold", res |-> res,
                                   args |-> <<account_number(pay[r].card_number),
                                              pay[r].amount>>,
                                   hold |-> IF res = "ok" THEN Len(holds) + 1
                                                          ELSE NoId])]
         /\ IF res = "ok"
            THEN /\ holds' = Append(holds, "live")
                 /\ pay' = [pay EXCEPT ![r].pc = "approve",
                                       ![r].hold = Len(holds) + 1]
            ELSE /\ pay' = [pay EXCEPT ![r].pc = "reverse", ![r].err = res]
                 /\ UNCHANGED holds
    /\ UNCHANGED <<payments, refunds, ref, release_hold_count, withdraw_funds_count>>

\* variant: an error of withdraw_funds is always stored and answered as Failed
CheckAndReverseWithdrawAlwaysFailed(r) ==
    /\ pay[r].pc = "reverse"
    /\ LET payment_err == IF pay[r].hold # NoId THEN 500
                          ELSE PaymentErrorFrom(pay[r].err)
       IN  /\ payments' = payments_update(pay[r].payment_id,
                                           get_payment_status(payment_err))
           /\ pay' = [pay EXCEPT ![r].pc = "done",
                                 ![r].code = get_http_status_code(payment_err),
                                 ![r].resp_id = FreshUuid,
                                 ![r].resp_status = get_payment_status(payment_err)]
    /\ UNCHANGED <<refunds, ref, holds, place_hold_count, release_hold_count,
                   withdraw_funds_count, calls>>

\* check_and_reverse_payment_status!, on Err
CheckAndReversePaymentStatus(r) ==
    /\ pay[r].pc = "reverse"
    /\ LET payment_err == PaymentErrorFrom(pay[r].err)
       IN  /\ payments' = payments_update(pay[r].payment_id,
                                           get_payment_status(payment_err))
           /\ pay' = [pay EXCEPT ![r].pc = "done",
                                 ![r].code = get_http_status_code(payment_err),
                                 ![r].resp_id = FreshUuid,
                                 ![r].resp_status = get_payment_status(payment_err)]
    /\ UNCHANGED <<refunds, ref, holds, place_hold_count, release_hold_count,
                   withdraw_funds_count, calls>>

\* variant: the saga goes on to withdraw_funds without the Approved write
UpdateApprovedSkipped(r) ==
    /\ pay[r].pc = "approve"
    /\ pay' = [pay EXCEPT ![r].pc = "withdraw"]
    /\ UNCHANGED <<payments, refunds, ref, holds, place_hold_count,
                   release_hold_count, withdraw_funds_count, calls>>

UpdateApproved(r) ==
    /\ pay[r].pc = "approve"
    /\ payments' = payments_update(pay[r].payment_id, "Approved")
    /\ pay' = [pay EXCEPT ![r].pc = "withdraw"]
    /\ UNCHANGED <<refunds, ref, holds, place_hold_count, release_hold_count,
                   withdraw_funds_count, calls>>

\* variant: a failed withdraw_funds is tried again
WithdrawFundsRetry(r, answers) ==
    /\ pay[r].pc = "withdraw"
    /\ withdraw_funds_count' = withdraw_funds_count + 1
    /\ \E res \in answers :
         /\ calls' = [calls EXCEPT ![r] =
                        Append(@, [op |-> "withdraw_funds", res |-> res,
                                   args |-> <<pay[r].hold>>,
                                   hold |-> pay[r].hold])]
         /\ IF res = "ok"
            THEN /\ holds' = [holds EXCEPT ![pay[r].hold] = "withdrawn"]
                 /\ pay' = [pay EXCEPT ![r].pc = "done", ![r].code = 201,
                                       ![r].resp_id = pay[r].payment_id,
                                       ![r].resp_status = "Approved"]
            ELSE /\ pay' = [pay EXCEPT ![r].err = res]
                 /\ UNCHANGED holds
    /\ UNCHANGED <<payments, refunds, ref, place_hold_count, release_hold_count>>

WithdrawFunds(r, answers) ==
    /\ pay[r].pc = "withdraw"
    /\ withdraw_funds_count' = withdraw_funds_count + 1
    /\ \E res \in answers :
         /\ calls' = [calls EXCEPT ![r] =
                        Append(@, [op |-> "withdraw_funds", res |-> res,
                                   args |-> <<pay[r].hold>>,
                                   hold |-> pay[r].hold])]
         /\ IF res = "ok"
            THEN /\ holds' = [holds EXCEPT ![pay[r].hold] = "withdrawn"]
                 /\ pay' = [pay EXCEPT ![r].pc = "done", ![r].code = 201,
                                       ![r].resp_id = pay[r].payment_id,
                                       ![r].resp_status = "Approved"]
            ELSE /\ pay' = [pay EXCEPT ![r].pc = "reverse", ![r].err = res]
                 /\ UNCHANGED holds
    /\ UNCHANGED <<payments, refunds, ref, place_hold_count, release_hold_count>>

\* -------------------------------------------------------------- bank/refunds
RefundsOf(payment_id) == {i \in DOMAIN refunds : refunds[i].payment_id = payment_id}

RECURSIVE SumAmounts(_)
SumAmounts(S) ==
    IF S = {} THEN 0
    ELSE LET i == CHOOSE x \in S : TRUE
         IN  refunds[i].amount + SumAmounts(S \ {i})

\* variant: the refunds already written are not counted
CheckedInsertAcceptsNoSum(payment_id, refund_amount) ==
    /\ payment_id \in DOMAIN payments
    /\ payments[payment_id].amount >= refund_amount

\* variant: the comparisons are strict
CheckedInsertAcceptsStrict(payment_id, refund_amount) ==
    \/ /\ RefundsOf(payment_id) # {}
       /\ payment_id \in DOMAIN payments
       /\ payments[payment_id].amount - SumAmounts(RefundsOf(payment_id))
             > refund_amount
    \/ /\ RefundsOf(payment_id) = {}
       /\ payment_id \in DOMAIN payments
       /\ payments[payment_id].amount > refund_amount

\* variant: only the branch for a payment without refunds
CheckedInsertAcceptsFirstOnly(payment_id, refund_amount) ==
    /\ RefundsOf(payment_id) = {}
    /\ payment_id \in DOMAIN payments
    /\ payments[payment_id].amount >= refund_amount

\* the WHERE clause of the conditional insert
CheckedInsertAccepts(payment_id, refund_amount) ==
    \/ /\ RefundsOf(payment_id) # {}
       /\ payment_id \in DOMAIN payments
       /\ payments[payment_id].amount - SumAmounts(RefundsOf(payment_id))
             >= refund_amount
    \/ /\ RefundsOf(payment_id) = {}
       /\ payment_id \in DOMAIN payments
       /\ payments[payment_id].amount >= refund_amount

\* --------------------------------------------------- bank_web/refunds::post
\* variant: the status of the payment is not looked at
RefundPostNoStatusCheck(r) ==
    /\ ref[r].pc = "start"
    /\ Started(ref, r)
    /\ \E payment_id \in Sagas, amount \in Amounts :
         LET req == [ref[r] EXCEPT !.payment_id = payment_id, !.amount = amount]
         IN  IF payment_id \notin DOMAIN payments
             THEN ref' = [ref EXCEPT ![r] =
                            [req EXCEPT !.pc = "done", !.code = 404,
                                        !.error = "payment doesn't exist"]]
             ELSE ref' = [ref EXCEPT ![r] = [req EXCEPT !.pc = "checked_insert"]]
    /\ UNCHANGED <<payments, refunds, pay, holds, place_hold_count,
                   release_hold_count, withdraw_funds_count, calls>>

RefundPost(r) ==
    /\ ref[r].pc = "start"
    /\ Started(ref, r)
    /\ \E payment_id \in Sagas, amount \in Amounts :
         LET req == [ref[r] EXCEPT !.payment_id = payment_id, !.amount = amount]
         IN  IF payment_id \notin DOMAIN payments
             THEN ref' = [ref EXCEPT ![r] =
                            [req EXCEPT !.pc = "done", !.code = 404,
                                        !.error = "payment doesn't exist"]]
             ELSE IF payments[payment_id].status # "Approved"
             THEN ref' = [ref EXCEPT ![r] =
                            [req EXCEPT !.pc = "done", !.code = 404,
                                        !.error = "has a status other than approved"]]
             ELSE ref' = [ref EXCEPT ![r] = [req EXCEPT !.pc = "checked_insert"]]
    /\ UNCHANGED <<payments, refunds, pay, holds, place_hold_count,
                   release_hold_count, withdraw_funds_count, calls>>

\* variant: the accepted refund takes the place of the rows already written
RefundCheckedInsertReplace(r) ==
    /\ ref[r].pc = "checked_insert"
    /\ IF CheckedInsertAccepts(ref[r].payment_id, ref[r].amount)
       THEN /\ refunds' = <<[payment_id |-> ref[r].payment_id,
                             amount |-> ref[r].amount]>>
            /\ ref' = [ref EXCEPT ![r].pc = "done", ![r].code = 201,
                                  ![r].resp_id = 1]
       ELSE /\ ref' = [ref EXCEPT ![r].pc = "done", ![r].code = 422,
                                  ![r].error = "excessive refund amount requested"]
            /\ UNCHANGED refunds
    /\ UNCHANGED <<payments, pay, holds, place_hold_count, release_hold_count,
                   withdraw_funds_count, calls>>

\* variant: the row is written first and the amount is compared afterwards
RefundCheckedInsertThenReject(r) ==
    /\ ref[r].pc = "checked_insert"
    /\ refunds' = Append(refunds, [payment_id |-> ref[r].payment_id,
                                   amount |-> ref[r].amount])
    /\ IF CheckedInsertAccepts(ref[r].payment_id, ref[r].amount)
       THEN ref' = [ref EXCEPT ![r].pc = "done", ![r].code = 201,
                               ![r].resp_id = Len(refunds) + 1]
       ELSE ref' = [ref EXCEPT ![r].pc = "done", ![r].code = 422,
                               ![r].error = "excessive refund amount requested"]
    /\ UNCHANGED <<payments, pay, holds, place_hold_count, release_hold_count,
                   withdraw_funds_count, calls>>

RefundCheckedInsert(r) ==
    /\ ref[r].pc = "checked_insert"
    /\ IF CheckedInsertAccepts(ref[r].payment_id, ref[r].amount)
       THEN /\ refunds' = Append(refunds, [payment_id |-> ref[r].payment_id,
                                           amount |-> ref[r].amount])
            /\ ref' = [ref EXCEPT ![r].pc = "done", ![r].code = 201,
                                  ![r].resp_id = Len(refunds) + 1]
       ELSE /\ ref' = [ref EXCEPT ![r].pc = "done", ![r].code = 422,
                                  ![r].error = "excessive refund amount requested"]
            /\ UNCHANGED refunds
    /\ UNCHANGED <<payments, pay, holds, place_hold_count, release_hold_count,
                   withdraw_funds_count, calls>>

\* --------------------------------------------------- bank_web/payments::get
\* SELECT ... FROM payments WHERE id = $1, fetch_one
payments_get(id) ==
    IF id \in DOMAIN payments
    THEN [ok |-> TRUE, id |-> id, row |-> payments[id]]
    ELSE [ok |-> FALSE, id |-> NoId, row |-> <<>>]

\* the handler reads and writes nothing: its response is a function of the
\* store and of the id in the path; unwrap() of a missing row panics and the
\* request gets no response (code 0)
PaymentGet(payment_id) ==
    LET payment == payments_get(payment_id)
    IN  IF payment.ok
        THEN [code |-> 200, id |-> payment.id, amount |-> payment.row.amount,
              card_number |-> payment.row.card_number,
              status |-> payment.row.status]
        ELSE [code |-> 0, id |-> NoId, amount |-> 0,
              card_number |-> <<>>, status |-> "panic"]

\* ---------------------------------------------------- bank_web/refunds::get
\* the payment ids that the path of a request may carry: the path is any
\* uuid, that of the payment of the refund or another one
PathPaymentIds == 1..NumPay

\* SELECT ... FROM refunds WHERE id = $1, fetch_one
refunds_get(id) ==
    IF id \in DOMAIN refunds
    THEN [ok |-> TRUE, id |-> id, row |-> refunds[id]]
    ELSE [ok |-> FALSE, id |-> NoId, row |-> <<>>]

\* the handler looks the refund up by refund_id alone and answers with the
\* payment_id of the path; unwrap() of a missing row panics and the request
\* gets no response (code 0)
RefundGet(payment_id, refund_id) ==
    LET data == refunds_get(refund_id)
    IN  IF data.ok
        THEN [code |-> 200, id |-> data.id, amount |-> data.row.amount,
              payment_id |-> payment_id]
        ELSE [code |-> 0, id |-> NoId, amount |-> 0, payment_id |-> NoId]

\* ----------------------------------------------------------- specification
\* create-payment requests alone, with every input
Next ==
    \/ \E r \in PReqs : PaymentPost(r, Amounts, Cards)
    \/ \E r \in PReqs : PlaceHold(r, Answers)
    \/ \E r \in PReqs : CheckAndReversePaymentStatus(r)
    \/ \E r \in PReqs : UpdateApproved(r)
    \/ \E r \in PReqs : WithdrawFunds(r, Answers)

Spec == Init /\ [][Next]_vars

\* create-refund requests beside the saga of a valid create-payment request
NextRefund ==
    \/ \E r \in Sagas : PaymentPost(r, ValidAmounts, {CardA})
    \/ \E r \in Sagas : PlaceHold(r, SagaAnswers)
    \/ \E r \in Sagas : CheckAndReversePaymentStatus(r)
    \/ \E r \in Sagas : UpdateApproved(r)
    \/ \E r \in Sagas : WithdrawFunds(r, SagaAnswers)
    \/ \E r \in RReqs : RefundPost(r)
    \/ \E r \in RReqs : RefundCheckedInsert(r)

SpecRefund == Init /\ [][NextRefund]_vars

\* one create-payment request with every input; the task is polled until it
\* returns and every call it awaits answers
NextLive ==
    \/ \E r \in Sagas : PaymentPost(r, Amounts, Cards)
    \/ \E r \in Sagas : PlaceHold(r, Answers)
    \/ \E r \in Sagas : CheckAndReversePaymentStatus(r)
    \/ \E r \in Sagas : UpdateApproved(r)
    \/ \E r \in Sagas : WithdrawFunds(r, Answers)

Fairness ==
    \A r \in Sagas :
        /\ WF_vars(PlaceHold(r, Answers))
        /\ WF_vars(CheckAndReversePaymentStatus(r))
        /\ WF_vars(UpdateApproved(r))
        /\ WF_vars(WithdrawFunds(r, Answers))

SpecLive == Init /\ [][NextLive]_vars /\ Fairness

\* ------------------------------------------------------------------ claims
Terminal == {"Approved", "Declined", "Failed"}

\* the card number the data model asks for: exactly 15 decimal digits
FifteenDigits(card_number) ==
    /\ Len(card_number) = 15
    /\ \A i \in 1..Len(card_number) : card_number[i] \in Digits

\* every account service call made so far: <<request, position>>
CallSites == UNION {{<<r, k>> : k \in DOMAIN calls[r]} : r \in PReqs}

\* the place_hold calls of the requests that carry card number c
PlaceHoldCallsFor(c) ==
    {rk \in CallSites :
        /\ pay[rk[1]].card_number = c
        /\ calls[rk[1]][rk[2]].op = "place_hold"}

\* the calls that resolve hold h
ResolutionCallsOn(h) ==
    {rk \in CallSites :
        /\ calls[rk[1]][rk[2]].op \in {"withdraw_funds", "release_hold"}
        /\ calls[rk[1]][rk[2]].hold = h}

CallsOf(r, ops) == {k \in DOMAIN calls[r] : calls[r][k].op \in ops}

\* C1: in every reachable state, for every Payment row the amounts of the
\* Refund rows that reference it sum to at most the amount of the payment.
C1_RefundSumWithinPayment ==
    \A p \in DOMAIN payments :
        SumAmounts(RefundsOf(p)) <= payments[p].amount

\* two refunds were written against one payment and use up its whole amount
C1_Witness ==
    \E p \in DOMAIN payments :
        /\ Cardinality(RefundsOf(p)) >= 2
        /\ SumAmounts(RefundsOf(p)) = payments[p].amount
        /\ \A i \in RefundsOf(p) : refunds[i].amount > 0

\* the case of C2: two refund requests that both read the payment as
\* Approved, each fitting alone, jointly exceeding the amount, and no refund
\* of the payment written by anyone else
RacingPair(r1, r2) ==
    /\ r1 # r2
    /\ ref[r1].pc = "done" /\ ref[r2].pc = "done"
    /\ ref[r1].code \in {201, 422} /\ ref[r2].code \in {201, 422}
    /\ ref[r1].payment_id = ref[r2].payment_id
    /\ LET A == payments[ref[r1].payment_id].amount
       IN  /\ ref[r1].amount <= A
           /\ ref[r2].amount <= A
           /\ ref[r1].amount + ref[r2].amount > A
    /\ \A i \in RefundsOf(ref[r1].payment_id) :
           \E r \in {r1, r2} : ref[r].code = 201 /\ ref[r].resp_id = i

\* C2: of two refund requests against an Approved payment without refunds
\* that each fit alone and together exceed the amount, exactly one is
\* created and the other is rejected as excessive, in every interleaving.
C2_OneRefundWins ==
    \A r1, r2 \in RReqs :
        RacingPair(r1, r2) =>
            /\ {ref[r1].code, ref[r2].code} = {201, 422}
            /\ Cardinality(RefundsOf(ref[r1].payment_id)) = 1

\* two requests for the whole amount of the payment, one created, one rejected
C2_Witness ==
    \E r1, r2 \in RReqs :
        /\ RacingPair(r1, r2)
        /\ ref[r1].amount = payments[ref[r1].payment_id].amount
        /\ ref[r2].amount = ref[r1].amount
        /\ ref[r1].code = 201
        /\ ref[r2].code = 422

\* C3: for the create-payment requests that share a card number, at most
\* one Payment row exists for the card number and place_hold was called at
\* most once over all of them.
C3_SingleUseCard ==
    \A c \in Cards :
        /\ Cardinality({i \in DOMAIN payments : payments[i].card_number = c}) <= 1
        /\ Cardinality(PlaceHoldCallsFor(c)) <= 1

\* two requests carried the same card number: one went through its saga,
\* the other was rejected as a conflict
C3_Witness ==
    \E r1, r2 \in PReqs :
        /\ r1 # r2
        /\ pay[r1].card_number = pay[r2].card_number
        /\ pay[r1].pc = "done" /\ pay[r1].code = 201
        /\ pay[r2].pc = "done" /\ pay[r2].code = 422
        /\ pay[r2].err = "card_number already used"
        /\ Cardinality(PlaceHoldCallsFor(pay[r1].card_number)) = 1

\* C4: when a create-payment request has returned, the hold that place_hold
\* gave it has been consumed by withdraw_funds or by release_hold.
C4_HoldResolvedAtReturn ==
    \A r \in PReqs :
        (pay[r].pc = "done" /\ pay[r].hold # NoId)
            => holds[pay[r].hold] \in {"withdrawn", "released"}

\* C5: a request calls place_hold at most once, its hold is passed to at
\* most one of withdraw_funds and release_hold, and no call of the account
\* service follows a failed one.
C5_NoRetryNoDoubleResolution ==
    /\ \A r \in PReqs :
        /\ Cardinality(CallsOf(r, {"place_hold"})) <= 1
        /\ Cardinality(CallsOf(r, {"withdraw_funds", "release_hold"})) <= 1
        /\ \A k \in DOMAIN calls[r] : k < Len(calls[r]) => calls[r][k].res = "ok"
    /\ \A h \in DOMAIN holds : Cardinality(ResolutionCallsOn(h)) <= 1

\* a request returned after its withdraw_funds failed
C5_Witness ==
    \E r \in PReqs :
        /\ pay[r].pc = "done"
        /\ Len(calls[r]) = 2
        /\ calls[r][1].res = "ok"
        /\ calls[r][2].op = "withdraw_funds"
        /\ calls[r][2].res # "ok"

\* the create-payment request that wrote row i
SagaOf(i) == CHOOSE r \in PReqs : pay[r].payment_id = i

\* C6: a Payment row that is stored as Approved is never changed to Declined
\* or Failed, and when its request has returned its hold has been withdrawn.
C6_ApprovedGuaranteesMoney ==
    [][\A i \in DOMAIN payments :
          payments[i].status = "Approved" =>
              /\ payments'[i].status \notin {"Declined", "Failed"}
              /\ pay'[SagaOf(i)].pc = "done" =>
                     holds'[pay'[SagaOf(i)].hold] = "withdrawn"]_vars

\* C7: the status of a Payment row changes only from Processing, and only to
\* Approved, Declined or Failed.
C7_OnlyProcessingTransitions ==
    [][\A i \in DOMAIN payments :
          payments'[i].status # payments[i].status =>
              /\ payments[i].status = "Processing"
              /\ payments'[i].status \in Terminal]_vars

\* C8: when a create-payment request that inserted its row has returned, the
\* stored status of the row is terminal and is the status of the response.
C8_ReturnedStatusIsStored ==
    \A r \in PReqs :
        (pay[r].pc = "done" /\ pay[r].payment_id # NoId) =>
            /\ payments[pay[r].payment_id].status \in Terminal
            /\ payments[pay[r].payment_id].status = pay[r].resp_status

\* a request returned Failed after its row had been written as Approved
C8_Witness ==
    \E r \in PReqs :
        /\ pay[r].pc = "done"
        /\ pay[r].payment_id # NoId
        /\ Len(calls[r]) = 2
        /\ pay[r].resp_status = "Failed"
        /\ payments[pay[r].payment_id].status = "Failed"

\* the request wrote no row and called nothing
NoEffect(r) ==
    /\ pay[r].pc = "done"
    /\ pay[r].payment_id = NoId
    /\ calls[r] = <<>>
    /\ \A i \in DOMAIN payments :
           payments[i].card_number = pay[r].card_number =>
               \E q \in PReqs \ {r} : pay[q].payment_id = i

\* C9: a request with amount 0 is rejected with 204, one with a negative
\* amount with 400, one with a positive amount and a card number that is not
\* 15 digits with 422; none of them writes a row or calls place_hold.
C9_PreValidationRejects ==
    \A r \in PReqs :
        pay[r].pc # "start" =>
            /\ pay[r].amount = 0 => (pay[r].code = 204 /\ NoEffect(r))
            /\ pay[r].amount < 0 => (pay[r].code = 400 /\ NoEffect(r))
            /\ (pay[r].amount > 0 /\ ~FifteenDigits(pay[r].card_number))
                  => (pay[r].code = 422 /\ NoEffect(r))

\* the request was rejected for the format of its card number
RejectedAsMalformed(r) ==
    /\ pay[r].pc = "done"
    /\ pay[r].code = 422
    /\ pay[r].err = "Bad Card Number format"
    /\ pay[r].payment_id = NoId

\* C10: the card number of a request with a positive amount passes the card
\* validation if and only if it is exactly 15 decimal digits; any other is
\* rejected as malformed and no row is written.
C10_CardAcceptedIffFifteenDigits ==
    \A r \in PReqs :
        (pay[r].pc # "start" /\ pay[r].amount > 0) =>
            (RejectedAsMalformed(r) <=> ~FifteenDigits(pay[r].card_number))

\* the request r takes its first step: it leaves "start"
Arrives(t, r) == t[r].pc = "start" /\ t'[r].pc # "start"

\* the request was rejected because its card number is already stored
RejectedAsConflict(r) ==
    /\ pay[r].pc = "done"
    /\ pay[r].code = 422
    /\ pay[r].err = "card_number already used"
    /\ pay[r].payment_id = NoId
    /\ calls[r] = <<>>

\* C11 as stated: a create-payment request that arrives when a Payment row
\* with its card number exists is rejected as a conflict (422), writes no
\* row and calls nothing.
C11_UsedCardAlwaysConflict ==
    [][\A r \in PReqs :
          (/\ Arrives(pay, r)
           /\ FifteenDigits(pay'[r].card_number)
           /\ CardNumberUsed(pay'[r].card_number)) =>
              /\ RejectedAsConflict(r)'
              /\ payments' = payments]_vars

\* C11: a create-payment request that arrives when a Payment row with its
\* card number exists, whatever the status of the row, writes no row and
\* never calls place_hold; when its amount is positive it is rejected as a
\* conflict (422, card_number already used).
C11_UsedCardNeverReused ==
    [][\A r \in PReqs :
          (Arrives(pay, r) /\ CardNumberUsed(pay'[r].card_number)) =>
              /\ pay'[r].pc = "done"
              /\ pay'[r].payment_id = NoId
              /\ calls'[r] = <<>>
              /\ payments' = payments
              /\ pay'[r].amount > 0 => RejectedAsConflict(r)']_vars

\* a request was rejected as a conflict while the row of its card number
\* was no longer Processing
C11_Witness ==
    \E r \in PReqs : \E i \in DOMAIN payments :
        /\ RejectedAsConflict(r)
        /\ payments[i].card_number = pay[r].card_number
        /\ payments[i].status = "Declined"

\* the request inserted its row and has returned
Returned(r) == pay[r].pc = "done" /\ pay[r].payment_id # NoId

\* the answer of the account service that ended the saga of r
LastAnswer(r) == calls[r][Len(calls[r])].res

\* C12: a request that inserted its row and whose place_hold and
\* withdraw_funds both succeeded returns 201 with status Approved, its row is
\* stored as Approved, it called withdraw_funds once and release_hold never.
C12_SuccessIsApproved ==
    \A r \in PReqs :
        (Returned(r) /\ \A k \in DOMAIN calls[r] : calls[r][k].res = "ok") =>
            /\ pay[r].code = 201
            /\ pay[r].resp_status = "Approved"
            /\ payments[pay[r].payment_id].status = "Approved"
            /\ Cardinality(CallsOf(r, {"place_hold"})) = 1
            /\ Cardinality(CallsOf(r, {"withdraw_funds"})) = 1
            /\ CallsOf(r, {"release_hold"}) = {}
            /\ release_hold_count = 0

\* a request returned after both calls succeeded
C12_Witness ==
    \E r \in PReqs :
        /\ Returned(r)
        /\ Len(calls[r]) = 2
        /\ \A k \in DOMAIN calls[r] : calls[r][k].res = "ok"
        /\ holds[pay[r].hold] = "withdrawn"
        /\ withdraw_funds_count >= 1

\* the saga of r ended on the answer e of the account service
FailedWith(r, e) == Returned(r) /\ calls[r] # <<>> /\ LastAnswer(r) = e

\* the row of r is stored with the status, and the response carries the
\* status and the severity class
Outcome(r, status, code) ==
    /\ pay[r].code = code
    /\ pay[r].resp_status = status
    /\ payments[pay[r].payment_id].status = status

\* C13: when the account service fails with insufficient_funds, the row is
\* stored as Declined and the response is 402 with status Declined.
C13_InsufficientFundsDeclined ==
    \A r \in PReqs :
        FailedWith(r, "insufficient_funds") => Outcome(r, "Declined", 402)

\* withdraw_funds failed with insufficient_funds
C13_Witness ==
    \E r \in PReqs :
        FailedWith(r, "insufficient_funds") /\ Len(calls[r]) = 2

\* C14: when the account service fails with invalid_account_number, the row
\* is stored as Declined and the response is 403 with status Declined.
C14_InvalidAccountDeclined ==
    \A r \in PReqs :
        FailedWith(r, "invalid_account_number") => Outcome(r, "Declined", 403)

\* place_hold failed with invalid_account_number
C14_Witness ==
    \E r \in PReqs :
        FailedWith(r, "invalid_account_number") /\ Len(calls[r]) = 1

\* C15: when the account service fails with invalid_amount, the row is
\* stored as Declined and the response is 400 with status Declined.
C15_InvalidAmountDeclined ==
    \A r \in PReqs :
        FailedWith(r, "invalid_amount") => Outcome(r, "Declined", 400)

\* C16: when the account service fails with service_unavailable or with any
\* error other than invalid_account_number, invalid_amount and
\* insufficient_funds, the row is stored as Failed and the response is 500
\* with status Failed.
C16_UnknownErrorFailed ==
    \A r \in PReqs : \A e \in ServiceErrors :
        (/\ e \notin {"invalid_account_number", "invalid_amount",
                      "insufficient_funds"}
         /\ FailedWith(r, e)) => Outcome(r, "Failed", 500)

\* one saga ended on service_unavailable, another on an unclassified error
C16_Witness ==
    \E r1, r2 \in PReqs :
        /\ FailedWith(r1, "service_unavailable")
        /\ FailedWith(r2, "timeout")

\* the refund request was rejected as not found, with the message, and wrote
\* nothing
NotFound(r, message) ==
    /\ ref[r].pc = "done"
    /\ ref[r].code = 404
    /\ ref[r].error = message
    /\ ref[r].resp_id = NoId

\* C17: a refund request that finds no payment with its payment id, or
\* finds one whose status is not Approved, is rejected with 404, with a
\* different message in the two cases, and writes no Refund row.
C17_NotEligibleIsNotFound ==
    [][\A r \in RReqs :
          Arrives(ref, r) =>
              LET payment_id == ref'[r].payment_id
              IN  /\ payment_id \notin DOMAIN payments =>
                       /\ NotFound(r, "payment doesn't exist")'
                       /\ refunds' = refunds
                  /\ (/\ payment_id \in DOMAIN payments
                      /\ payments[payment_id].status # "Approved") =>
                       /\ NotFound(r, "has a status other than approved")'
                       /\ refunds' = refunds]_vars

\* one request found no payment, another found a payment that is not
\* Approved, and no refund was written
C17_Witness ==
    \E r1, r2 \in RReqs :
        /\ NotFound(r1, "payment doesn't exist")
        /\ NotFound(r2, "has a status other than approved")
        /\ payments[ref[r2].payment_id].status \in {"Processing", "Declined", "Failed"}
        /\ refunds = <<>>

\* C18: the conditional insert of a refund request of amount a against
\* payment P with refunds summing to S writes a Refund row of amount a and
\* returns its id with 201 if and only if S + a <= P.amount; otherwise it
\* writes nothing and the request is rejected as excessive (422).
C18_RefundFitsIffAccepted ==
    [][\A r \in RReqs :
          (ref[r].pc = "checked_insert" /\ ref'[r].pc = "done") =>
              LET P == payments[ref[r].payment_id]
                  S == SumAmounts(RefundsOf(ref[r].payment_id))
                  a == ref[r].amount
              IN  IF S + a <= P.amount
                  THEN /\ ref'[r].code = 201
                       /\ ref'[r].resp_id = Len(refunds) + 1
                       /\ refunds' = Append(refunds,
                              [payment_id |-> ref[r].payment_id, amount |-> a])
                  ELSE /\ ref'[r].code = 422
                       /\ ref'[r].error = "excessive refund amount requested"
                       /\ refunds' = refunds]_vars

\* a second refund was accepted that brings the sum to the payment amount
C18_Witness ==
    \E r \in RReqs :
        /\ ref[r].pc = "done" /\ ref[r].code = 201
        /\ ref[r].resp_id = 2
        /\ refunds[2].amount = ref[r].amount
        /\ refunds[1].amount > 0 /\ refunds[2].amount > 0
        /\ payments[ref[r].payment_id].status = "Approved"
        /\ SumAmounts(RefundsOf(ref[r].payment_id))
              = payments[ref[r].payment_id].amount

\* C19: every Refund row has a positive amount.
C19_RefundAmountPositive ==
    \A i \in DOMAIN refunds : refunds[i].amount > 0

\* C20: the response of a request that inserted its row carries the id of
\* that row.
C20_ResponseCarriesRowId ==
    \A r \in PReqs : Returned(r) => pay[r].resp_id = pay[r].payment_id

\* the read of the payment by the id of the create response of r returns the
\* amount, card number and status of that response
RoundTrip(r) ==
    LET read == PaymentGet(pay[r].resp_id)
    IN  /\ read.code = 200
        /\ read.amount = pay[r].amount
        /\ read.card_number = pay[r].card_number
        /\ read.status = pay[r].resp_status

\* C21: for every create-payment request that created a Payment row, the
\* read of the payment by the id of the create response returns the amount,
\* card number and status of the create response.
C21_CreateThenReadRoundTrip ==
    \A r \in PReqs : Returned(r) => RoundTrip(r)

\* the status stored for payment id i, "none" when there is no such row
StoredStatus(i) ==
    IF i \in DOMAIN payments THEN payments[i].status ELSE "none"

\* C22: a Payment row that is stored as Processing is eventually stored with
\* a terminal status, whatever the account service answers.
C22_ProcessingReachesTerminal ==
    \A i \in Sagas :
        (StoredStatus(i) = "Processing") ~> (StoredStatus(i) \in Terminal)

\* the row of a saga whose place_hold failed has left Processing
C22_Witness ==
    \E r \in Sagas :
        /\ Returned(r)
        /\ Len(calls[r]) = 1
        /\ LastAnswer(r) # "ok"
        /\ payments[pay[r].payment_id].status \in {"Declined", "Failed"}

\* C23: a Refund row, once written, is never changed and never removed: every
\* step (of a settlement saga, of a later refund request accepted or rejected)
\* leaves every existing row with its id, its amount and its payment_id.
C23_RefundRowsImmutable ==
    [][\A i \in DOMAIN refunds :
          /\ i \in DOMAIN refunds'
          /\ refunds'[i].amount = refunds[i].amount
          /\ refunds'[i].payment_id = refunds[i].payment_id]_vars

\* a first refund row is still there after a second refund was accepted, a
\* later payment status update was made and the saga returned
C23_Witness ==
    /\ Len(refunds) = 2
    /\ \A r \in RReqs : ref[r].pc = "done" /\ ref[r].code = 201
    /\ \E s \in Sagas : Returned(s) /\ Len(calls[s]) = 2
                          /\ payments[pay[s].payment_id].status # "Approved"

\* C24: in every state every Refund row references a Payment row whose stored
\* status is Approved.
C24_RefundOnlyOfApproved ==
    \A i \in DOMAIN refunds :
        /\ refunds[i].payment_id \in DOMAIN payments
        /\ payments[refunds[i].payment_id].status = "Approved"

\* the step is a call of withdraw_funds by the saga of r
InvokesWithdrawFunds(r) ==
    /\ Len(calls'[r]) = Len(calls[r]) + 1
    /\ calls'[r][Len(calls'[r])].op = "withdraw_funds"

\* the step writes Approved to the row of r
WritesApproved(r) ==
    /\ pay[r].payment_id \in DOMAIN payments
    /\ payments[pay[r].payment_id].status # "Approved"
    /\ payments'[pay[r].payment_id].status = "Approved"

\* C25: withdraw_funds is invoked only when the row of the saga is already
\* stored as Approved (never while it is Processing), and the row is written
\* Approved only from Processing and only after the one place_hold of the
\* saga has succeeded and before any withdraw_funds.
C25_ApprovedBeforeWithdraw ==
    [][\A r \in PReqs :
          /\ InvokesWithdrawFunds(r) =>
                /\ pay[r].payment_id \in DOMAIN payments
                /\ payments[pay[r].payment_id].status = "Approved"
          /\ WritesApproved(r) =>
                /\ payments[pay[r].payment_id].status = "Processing"
                /\ Len(calls[r]) = 1
                /\ calls[r][1].op = "place_hold"
                /\ calls[r][1].res = "ok"]_vars

\* a saga that placed its hold, wrote Approved and then called withdraw_funds
C25_Witness ==
    \E r \in PReqs :
        /\ pay[r].payment_id # NoId
        /\ Len(calls[r]) = 2
        /\ calls[r][1].op = "place_hold" /\ calls[r][1].res = "ok"
        /\ calls[r][2].op = "withdraw_funds"
        /\ payments[pay[r].payment_id].status = "Approved"

\* the saga of r ended on the error e of place_hold
FailedAtPlaceHold(r, e) == FailedWith(r, e) /\ Len(calls[r]) = 1

\* the saga of r ended on the error e of withdraw_funds
FailedAtWithdrawFunds(r, e) == FailedWith(r, e) /\ Len(calls[r]) = 2

\* C26: for every error class e of the account service, a saga whose
\* withdraw_funds failed with e has the same stored status, the same status in
\* the response and the same response code as a saga whose place_hold failed
\* with e.
C26_SameClassificationAtBothSteps ==
    \A e \in ServiceErrors : \A r1, r2 \in PReqs :
        (FailedAtPlaceHold(r1, e) /\ FailedAtWithdrawFunds(r2, e)) =>
            /\ pay[r1].code = pay[r2].code
            /\ pay[r1].resp_status = pay[r2].resp_status
            /\ payments[pay[r1].payment_id].status
                 = payments[pay[r2].payment_id].status

\* one saga declined at place_hold and another declined at withdraw_funds on
\* the same error
C26_Witness ==
    \E r1, r2 \in PReqs :
        /\ FailedAtPlaceHold(r1, "insufficient_funds")
        /\ FailedAtWithdrawFunds(r2, "insufficient_funds")
        /\ payments[pay[r2].payment_id].status = "Declined"

\* r passed the pre-validation: positive amount, card number accepted
ValidRequest(r) ==
    /\ pay[r].pc # "start"
    /\ pay[r].amount > 0
    /\ CardTryFrom(pay[r].card_number) = "Ok"

\* two valid requests carry the same card number, and no third request
\* stored a row for it
RacingOnFreshCard(r1, r2) ==
    /\ r1 # r2
    /\ ValidRequest(r1) /\ ValidRequest(r2)
    /\ pay[r1].card_number = pay[r2].card_number
    /\ \A r3 \in PReqs \ {r1, r2} :
           ~(/\ pay[r3].payment_id # NoId
             /\ pay[r3].card_number = pay[r1].card_number)

\* r inserted its row and went on with the saga; when both calls of the
\* account service succeeded it returned 201
WonReservation(r) ==
    /\ pay[r].payment_id \in DOMAIN payments
    /\ payments[pay[r].payment_id].card_number = pay[r].card_number
    /\ (/\ pay[r].pc = "done"
        /\ Len(calls[r]) = 2
        /\ calls[r][1].res = "ok" /\ calls[r][2].res = "ok") => pay[r].code = 201

\* C27: of two valid create-payment requests on the same card number that no
\* other request used, exactly one inserted the row and goes through the saga
\* (201 when the account service succeeds) and the other is rejected with the
\* 422 conflict; never both rejected, never both inserted.
C27_ExactlyOneWinsReservation ==
    \A r1, r2 \in PReqs :
        RacingOnFreshCard(r1, r2) =>
            \/ WonReservation(r1) /\ RejectedAsConflict(r2)
            \/ WonReservation(r2) /\ RejectedAsConflict(r1)

\* the loser was rejected while the saga of the winner was in flight, between
\* its place_hold and its withdraw_funds
C27_Witness ==
    \E r1, r2 \in PReqs :
        /\ RacingOnFreshCard(r1, r2)
        /\ RejectedAsConflict(r2)
        /\ pay[r1].pc = "withdraw"
        /\ WonReservation(r1)
        /\ Len(payments) = 1

\* the moves of the status that a write may make: each one leaves Processing
\* or Approved for good, so a row is written at most twice
ForwardMoves ==
    {<<"Processing", "Approved">>, <<"Processing", "Declined">>,
     <<"Processing", "Failed">>, <<"Approved", "Declined">>,
     <<"Approved", "Failed">>}

\* C28: a Payment row is created with status Processing and is never removed;
\* every change of its status is one of the forward moves, so that no write
\* sets it back to Processing, a Declined or Failed row is never changed
\* again, and the status is written at most twice after the insert.
C28_StatusMovesForward ==
    [][/\ \A i \in DOMAIN payments :
             /\ i \in DOMAIN payments'
             /\ payments'[i].status # payments[i].status =>
                    <<payments[i].status, payments'[i].status>> \in ForwardMoves
       /\ \A i \in DOMAIN payments' \ DOMAIN payments :
             payments'[i].status = "Processing"]_vars

\* a row that was written twice: Approved after place_hold, then Declined
\* when withdraw_funds failed
C28_Witness ==
    \E r \in PReqs :
        /\ FailedAtWithdrawFunds(r, "invalid_account_number")
        /\ payments[pay[r].payment_id].status = "Declined"

\* r arrived with an amount or a card number that the pre-validation rejects
FailsPreValidation(r) ==
    /\ pay[r].pc # "start"
    /\ \/ pay[r].amount <= 0
       \/ CardTryFrom(pay[r].card_number) # "Ok"

\* C29: every Payment row has a positive amount and a card number that
\* Card::try_from accepts; a request that the pre-validation rejects has
\* returned without a row and without a call, and the table holds exactly the
\* rows of the requests that passed.
C29_OnlyValidatedRowsStored ==
    /\ \A i \in DOMAIN payments :
          /\ payments[i].amount > 0
          /\ CardTryFrom(payments[i].card_number) = "Ok"
    /\ \A r \in PReqs :
          FailsPreValidation(r) =>
              /\ pay[r].pc = "done"
              /\ pay[r].code \in {204, 400, 422}
              /\ pay[r].payment_id = NoId
              /\ calls[r] = <<>>
    /\ Len(payments) = Cardinality({r \in PReqs : pay[r].payment_id # NoId})

\* a request with a negative amount was rejected after another request had
\* stored its row: the table still holds that row alone
C29_Witness ==
    \E r1, r2 \in PReqs :
        /\ pay[r1].payment_id # NoId
        /\ FailsPreValidation(r2)
        /\ pay[r2].amount < 0
        /\ pay[r2].code = 400
        /\ Len(payments) = 1

\* the step belongs to the refund request r
RefundStep(r) == ref'[r] # ref[r]

\* the step ends the refund request r with a rejection
RefundRejectedBy(r) ==
    /\ ref[r].pc # "done"
    /\ ref'[r].pc = "done"
    /\ ref'[r].code \in {404, 422}

\* C30: a step of a refund request, accepted or rejected, calls neither
\* place_hold nor release_hold nor withdraw_funds, touches no hold and changes
\* no Payment row; the step that rejects a refund request (404 or 422) and
\* the step that only reads the payment leave the Refund table unchanged too.
C30_RefundTouchesOnlyRefunds ==
    [][\A r \in RReqs :
          RefundStep(r) =>
              /\ UNCHANGED <<payments, holds, calls, place_hold_count,
                             release_hold_count, withdraw_funds_count>>
              /\ (RefundRejectedBy(r) \/ ref'[r].pc # "done")
                     => UNCHANGED refunds]_vars

\* one refund was accepted and a later one was rejected as excessive, while
\* the saga of the payment was still waiting for withdraw_funds
C30_Witness ==
    \E r1, r2 \in RReqs :
        /\ ref[r1].pc = "done" /\ ref[r1].code = 201
        /\ ref[r2].pc = "done" /\ ref[r2].code = 422
        /\ Len(refunds) = 1
        /\ \E s \in Sagas : pay[s].pc = "withdraw" /\ Len(calls[s]) = 1
        /\ withdraw_funds_count = 0 /\ release_hold_count = 0

\* C31: for every stored Refund row and every payment id in the path, the
\* read answers 200 with the id, the amount and the payment_id of the row; and
\* the read of a refund that a request created answers the amount requested.
C31_RefundReadReturnsRow ==
    /\ \A i \in DOMAIN refunds : \A p \in PathPaymentIds :
          /\ RefundGet(p, i).code = 200
          /\ RefundGet(p, i).id = i
          /\ RefundGet(p, i).amount = refunds[i].amount
          /\ RefundGet(p, i).payment_id = refunds[i].payment_id
    /\ \A r \in RReqs :
          (ref[r].pc = "done" /\ ref[r].code = 201) =>
              RefundGet(ref[r].payment_id, ref[r].resp_id).amount = ref[r].amount
=============================================================================
